---------------------------- MODULE Spec2Model ----------------------------
(***************************************************************************)
(* Verification model of RandLib's regime-switching variate generators:    *)
(* GammaRand (src/distributions/univariate/continuous/GammaRand.cpp) and   *)
(* BinomialRand (src/distributions/univariate/discrete/BinomialRand.cpp).  *)
(*                                                                         *)
(* Number representation.  A finite double of the Gamma family is an       *)
(* integer count of 1e-7 units (ONE units make 1.0); a Binomial            *)
(* probability is an integer count of 5e-7 units (PONE units make 1.0);    *)
(* a Binomial sample value is a count of halves.  Quotients that need not  *)
(* fall on a grid (1/alpha, 1/theta, npFloor/n) are kept as exact          *)
(* fractions <<num, den>> in lowest terms, and so is the arithmetic of the  *)
(* estimators.  Values of transcendental                                   *)
(* library functions (tgamma, factorial, pow, sqrt, log) are kept as       *)
(* terms that record the function and the arguments it was applied to.     *)
(* Non-finite doubles occur only as return values (the NaN sentinel).      *)
(***************************************************************************)
EXTENDS Integers, Sequences, FiniteSets, TLC

\* ------------------------------------------------------------------------
\* Arithmetic helpers
\* ------------------------------------------------------------------------

\* 1.0 on the grid of Gamma-family doubles (units of 1e-7)
ONE == 10 * 1000 * 1000

\* 0.5 on the same grid
HALF == ONE \div 2

\* 1 / eps for the default eps = 1e-6 of RandMath::areClose
EpsInv == 1000000

Abs(x) == IF x < 0 THEN -x ELSE x

Max(x, y) == IF x < y THEN y ELSE x

Min(x, y) == IF y < x THEN y ELSE x

RECURSIVE GCD(_, _)
GCD(x, y) == IF y = 0 THEN x ELSE GCD(y, x % y)

\* the exact quotient num / den (den >= 0) in lowest terms
Frac(num, den) ==
    LET g == GCD(Abs(num), Abs(den))
    IN  IF g = 0 THEN <<0, 0>> ELSE <<num \div g, den \div g>>

\* |a - b| < eps * max(a, b), for a and b on the same grid
areClose(a, b) ==
    LET mx == Max(a, b)
    IN  /\ mx > 0
        /\ Abs(a - b) <= (mx - 1) \div EpsInv

\* std::round on the ONE grid: nearest integer, halves away from zero
round(x) ==
    IF x >= 0 THEN ((x + HALF) \div ONE) * ONE
              ELSE -(((-x + HALF) \div ONE) * ONE)

\* number of iterations of "for (int i = 0; i < bound; ++i)" for a double bound
LoopCount(bound) ==
    IF bound <= 0 THEN 0 ELSE (bound + ONE - 1) \div ONE

\* ------------------------------------------------------------------------
\* GammaRand: parameters and cached constants
\* ------------------------------------------------------------------------

\* NaN as a shape: a value off the grid; every comparison with NaN is false
NAN_D == -(200 * ONE)

\* a constant of the large-shape generator that was never assigned
Unset == [f |-> "unset", alpha |-> 0, m |-> 0]

\* the value of formula f of setConstantsForGenerator at shape a and m = mm
Sym(f, a, mm) == [f |-> f, alpha |-> a, m |-> mm]

\* GammaRand::setConstantsForGenerator
setConstantsForGenerator(g) ==
    LET mv == g.alpha - ONE
    IN  [g EXCEPT !.m   = [def |-> TRUE, val |-> mv],
                  !.s_2 = Sym("sqrt(8*alpha/3)+alpha", g.alpha, 0),
                  !.s   = Sym("sqrt(s_2)", g.alpha, 0),
                  !.d   = Sym("sqrt2*sqrt3*s_2", g.alpha, 0),
                  !.b   = Sym("d+m", g.alpha, mv),
                  !.w   = Sym("s_2/(m-1)", g.alpha, mv),
                  !.v   = Sym("2*s_2/(m*sqrt(alpha))", g.alpha, mv),
                  !.c   = Sym("b+log(s*d/b)-2m-3.7203285", g.alpha, mv)]

\* lines 30-32: alpha = shape; if (alpha <= 0) alpha = 1.0;
clampShapeMutStrict(shape) == IF shape < 0 THEN ONE ELSE shape

clampShape(shape) == IF shape # NAN_D /\ shape <= 0 THEN ONE ELSE shape

\* lines 35-37: theta = scale; if (theta <= 0) theta = 1.0;
clampScale(scale) == IF scale <= 0 THEN ONE ELSE scale

\* 1.0 / Gamma(alpha) as setParameters computes it (lines 40-47)
cdfCoefOf(a, close) ==
    IF close THEN [f |-> "1/factorial", x |-> a - ONE]
             ELSE [f |-> "1/tgamma", x |-> a]

\* GammaRand::setParameters
GammaSetParameters(g, shape, scale) ==
    LET a0      == clampShape(shape)
        aInv    == IF a0 = NAN_D THEN <<0, 0>> ELSE Frac(ONE, a0)
        th      == clampScale(scale)
        be      == Frac(ONE, th)
        aRound  == IF a0 = NAN_D THEN NAN_D ELSE round(a0)
        close   == a0 # NAN_D /\ areClose(a0, aRound)
        a1      == IF close THEN aRound ELSE a0
        cdf     == cdfCoefOf(a1, close)
        g1      == [g EXCEPT !.alpha       = a1,
                             !.alphaInv    = aInv,
                             !.theta       = th,
                             !.beta        = be,
                             !.cdfCoef     = cdf,
                             !.pdfCoef     = [coef |-> cdf, base |-> be, exp |-> a1],
                             !.variateCoef = [inv |-> aInv, plus |-> "1/e"]]
    IN  IF a1 # NAN_D /\ a1 > 3 * ONE THEN setConstantsForGenerator(g1) ELSE g1

\* a GammaRand object before its constructor has run
GammaRaw ==
    [alpha |-> 0, alphaInv |-> <<0, 0>>, theta |-> 0, beta |-> <<0, 0>>,
     cdfCoef |-> [f |-> "unset", x |-> 0],
     pdfCoef |-> [coef |-> [f |-> "unset", x |-> 0], base |-> <<0, 0>>, exp |-> 0],
     variateCoef |-> [inv |-> <<0, 0>>, plus |-> "1/e"],
     m |-> [def |-> FALSE, val |-> 0],
     s_2 |-> Unset, s |-> Unset, d |-> Unset, b |-> Unset,
     w |-> Unset, v |-> Unset, c |-> Unset]

\* GammaRand::GammaRand(shape, scale)
GammaRand(shape, scale) == GammaSetParameters(GammaRaw, shape, scale)


\* ------------------------------------------------------------------------
\* Bounds and input sets
\* ------------------------------------------------------------------------

\* stands for the cap 1e9 of the capped rejection loops
IterCap == 2

\* longest sample handed to an estimator
MaxSample == 2

\* longest output buffer handed to sample()
MaxBuf == 2

\* how far the model follows a loop that has no cap of its own
MaxSteps == IterCap + 2

\* shapes handed to setParameters: invalid, small, integer, half-integer,
\* one grid step off an integer or a half-integer, large
ShapeInputs ==
    {-ONE, 0, ONE \div 5, HALF, ONE, 3 * HALF - 1, 3 * HALF, 2 * ONE,
     5 * HALF, 3 * ONE, 3 * ONE + 1, 7 * HALF - 1, 7 * HALF, 4 * ONE,
     9 * HALF, 5 * ONE - 1, 5 * ONE, 50 * ONE}

ScaleInputs == {-ONE, 0, HALF, ONE, 2 * ONE}

GammaSampleValues == {-ONE, 0, 2 * ONE}

SeqsUpTo(S, k) == UNION {[1..i -> S] : i \in 0..k}

GammaSamples == SeqsUpTo(GammaSampleValues, MaxSample)

\* ------------------------------------------------------------------------
\* Exact arithmetic of the estimators
\* ------------------------------------------------------------------------

\* the grid value x as a fraction
R(x) == Frac(x, ONE)

RAdd(r1, r2) == Frac(r1[1] * r2[2] + r2[1] * r1[2], r1[2] * r2[2])

RSub(r1, r2) == Frac(r1[1] * r2[2] - r2[1] * r1[2], r1[2] * r2[2])

RMul(r1, r2) == Frac(r1[1] * r2[1], r1[2] * r2[2])

\* r1 / r2 for r2 > 0
RDiv(r1, r2) == Frac(r1[1] * r2[2], r1[2] * r2[1])

RPos(r) == r[1] > 0

\* the grid values of S that equal the fraction r
OnGrid(r, S) == {x \in S : R(x) = r}

\* the grid value of S that equals r, 0 if there is none
GridOf(r, S) == IF OnGrid(r, S) = {} THEN 0 ELSE CHOOSE x \in OnGrid(r, S) : TRUE

RECURSIVE SumSeq(_)
SumSeq(sq) == IF sq = <<>> THEN 0 ELSE sq[1] + SumSeq(Tail(sq))

\* RandMath::sum
sum(sample) == R(SumSeq(sample))

\* RandMath::sampleMean (of a non-empty sample)
sampleMean(sample) == Frac(SumSeq(sample), ONE * Len(sample))

RECURSIVE SumSqDev(_, _)
SumSqDev(sq, mean) ==
    IF sq = <<>> THEN <<0, 1>>
    ELSE RAdd(RMul(RSub(R(sq[1]), mean), RSub(R(sq[1]), mean)),
              SumSqDev(Tail(sq), mean))

\* RandMath::sampleVariance(sample, mean): second central moment
sampleVariance(sample, mean) ==
    RDiv(SumSqDev(sample, mean), <<Len(sample), 1>>)

\* ------------------------------------------------------------------------
\* GammaRand: estimators
\* ------------------------------------------------------------------------

\* GammaRand::checkValidity
GammaCheckValidity(sample) == \A i \in 1..Len(sample) : ~(sample[i] < 0)

\* an estimator call that returns false and changes nothing
FitFailed(g, pr) == [ret |-> FALSE, g |-> g, prior |-> pr, dom |-> TRUE]

\* an estimator call that hands shape and scale (fractions) to setParameters;
\* dom: both are input values of the model
FitSet(g, pr, shape, scale, fin) ==
    LET ok == fin /\ OnGrid(shape, ShapeInputs) # {} /\ OnGrid(scale, ScaleInputs) # {}
    IN  [ret |-> TRUE,
         g |-> IF ok THEN GammaSetParameters(g, GridOf(shape, ShapeInputs),
                                             GridOf(scale, ScaleInputs))
                     ELSE g,
         prior |-> pr, dom |-> ok]

\* GammaRand::fitScaleMLE
fitScaleMLE(g, pr, sample) ==
    IF ~GammaCheckValidity(sample) THEN FitFailed(g, pr)
    ELSE LET fin   == Len(sample) > 0
             scale == IF fin THEN RDiv(sampleMean(sample), R(g.alpha)) ELSE <<0, 1>>
         IN  FitSet(g, pr, R(g.alpha), scale, fin)

\* GammaRand::fitScaleMM
fitScaleMM(g, pr, sample) == fitScaleMLE(g, pr, sample)

\* GammaRand::fitShapeAndScaleMLE; found, root: what RandMath::findRoot
\* reports and leaves in shape
fitShapeAndScaleMLE(g, pr, sample, found, root) ==
    IF Len(sample) <= 0 \/ ~GammaCheckValidity(sample) THEN FitFailed(g, pr)
    ELSE IF ~found THEN FitFailed(g, pr)
    ELSE FitSet(g, pr, R(root), RDiv(sampleMean(sample), R(root)), TRUE)

\* GammaRand::fitShapeMM
fitShapeMM(g, pr, sample) ==
    IF ~GammaCheckValidity(sample) THEN FitFailed(g, pr)
    ELSE LET fin   == Len(sample) > 0
             shape == IF fin THEN RDiv(sampleMean(sample), R(g.theta)) ELSE <<0, 1>>
         IN  FitSet(g, pr, shape, R(g.theta), fin)

\* GammaRand::fitShapeAndScaleMM
fitShapeAndScaleMM(g, pr, sample) ==
    IF ~GammaCheckValidity(sample) THEN FitFailed(g, pr)
    ELSE LET fin   == Len(sample) > 0
             mu1   == IF fin THEN sampleMean(sample) ELSE <<0, 1>>
             var   == IF fin THEN sampleVariance(sample, mu1) ELSE <<0, 1>>
             fin2  == fin /\ RPos(var) /\ RPos(mu1)
             shape == IF fin2 THEN RDiv(RMul(mu1, mu1), var) ELSE <<0, 1>>
             scale == IF fin2 THEN RDiv(mu1, shape) ELSE <<0, 1>>
         IN  FitSet(g, pr, shape, scale, fin2)

\* GammaRand::Mean
GammaMean(g) == RMul(R(g.alpha), R(g.theta))

\* GammaRand::getRate: beta
GammaGetRate(g) == g.beta

\* GammaRand::fitRateBayes
fitRateBayes(g, pr, sample) ==
    LET n == Len(sample)
    IN  IF n <= 0 \/ ~GammaCheckValidity(sample) THEN FitFailed(g, pr)
        ELSE LET alpha0   == pr.alpha
                 beta0    == GammaGetRate(pr)
                 newAlpha == R(g.alpha * n + alpha0)
                 newBeta  == RAdd(sum(sample), beta0)
                 p1       == FitSet(pr, pr, newAlpha, RDiv(<<1, 1>>, newBeta), TRUE)
                 r        == FitSet(g, p1.g, R(g.alpha),
                                    RDiv(<<1, 1>>, GammaMean(p1.g)), p1.dom)
             IN  r

\* ------------------------------------------------------------------------
\* GammaRand: choice of the generator
\* ------------------------------------------------------------------------

\* GammaRand::variate: the routine it calls for the stored shape
GammaVariateAlg(g) ==
    IF g.alpha # NAN_D /\ g.alpha < 5 * ONE
    THEN LET alphaRound == round(g.alpha)
         IN  IF areClose(g.alpha, alphaRound) THEN "integer"
             ELSE IF areClose(g.alpha - HALF, alphaRound) THEN "integer"
             ELSE IF g.alpha <= ONE THEN "small"
             ELSE IF g.alpha <= 3 * ONE THEN "medium"
             ELSE "large"
    ELSE "large"

\* GammaRand::sample: the routine it calls for every slot
GammaSampleAlg(g) ==
    IF g.alpha # NAN_D /\ g.alpha < 5 * ONE
    THEN LET alphaRound == round(g.alpha)
         IN  IF areClose(g.alpha, alphaRound) THEN "integer"
             ELSE IF areClose(g.alpha - HALF, alphaRound) THEN "halfinteger"
             ELSE IF g.alpha <= ONE THEN "small"
             ELSE IF g.alpha <= 3 * ONE THEN "medium"
             ELSE "large"
    ELSE "large"

\* GammaRand::variateForIntegerShape: standard-exponential draws it sums
variateForIntegerShapeDraws(g) ==
    [nExp |-> LoopCount(g.alpha), nNorm |-> 0]

\* GammaRand::variateForHalfIntegerShape: draws it consumes
variateForHalfIntegerShapeDraws(g) ==
    [nExp |-> LoopCount(g.alpha - ONE), nNorm |-> 1]

\* ------------------------------------------------------------------------
\* BinomialRand: parameters and cached constants
\* ------------------------------------------------------------------------

\* 1.0 on the grid of probabilities (units of 5e-7)
PONE == 2 * 1000 * 1000

\* the probability x of the grid as a fraction
P(x) == Frac(x, PONE)

\* a constant of the rejection generator that was never assigned
BUnset == [f |-> "unset", n |-> 0, npFloor |-> 0]

\* the value of formula f of setGeneratorConstants at n and npFloor
\* (pFloor = npFloor / n, qFloor = 1 - pFloor)
BSym(f, nn, npF) == [f |-> f, n |-> nn, npFloor |-> npF]

getIdOfUsedGeneratorMutNoWaiting(b) ==
    IF \/ b.n <= 3
       \/ (b.n <= 13 /\ 40 * b.minpq > (b.n + 6) * PONE)
       \/ (b.n <= 200 /\ areClose(b.p, PONE \div 2))
    THEN "BERNOULLI_SUM"
    ELSE "REJECTION"

\* BinomialRand::getIdOfUsedGenerator
getIdOfUsedGenerator(b) ==
    IF \/ b.n <= 3
       \/ (b.n <= 13 /\ 40 * b.minpq > (b.n + 6) * PONE)
       \/ (b.n <= 200 /\ areClose(b.p, PONE \div 2))
    THEN "BERNOULLI_SUM"
    ELSE IF \/ b.npFloor <= 12
            \/ (RPos(b.pRes) /\ b.npFloor <= 16)
    THEN "WAITING"
    ELSE "REJECTION"

\* lines 19-22 of setGeneratorConstants
setMinorityConstantsMutStale(b) == b

setMinorityConstants(b) ==
    LET minpq   == Min(b.p, b.q)
        npFloor == (b.n * minpq) \div PONE
        pFloor  == Frac(npFloor, b.n)
        pRes    == IF areClose(npFloor * PONE, b.n * minpq)
                   THEN <<0, 1>> ELSE RSub(P(minpq), pFloor)
    IN  [b EXCEPT !.minpq = minpq, !.npFloor = npFloor,
                  !.pFloor = pFloor, !.pRes = pRes]

\* lines 32-79 of setGeneratorConstants: the constants of the rejection
\* generator
setRejectionConstants(b) ==
    LET qFloor == RSub(<<1, 1>>, b.pFloor)
        k(f)   == BSym(f, b.n, b.npFloor)
    IN  [b EXCEPT
           !.nqFloor = b.n - b.npFloor,
           !.G = IF RPos(b.pRes) THEN RDiv(b.pRes, qFloor) ELSE b.G,
           !.delta1 = k("delta1"), !.delta2 = k("delta2"),
           !.sigma1 = k("sigma1"), !.sigma2 = k("sigma2"), !.c = k("c"),
           !.a1 = k("a1"), !.a2 = k("a2"), !.a3 = k("a3"), !.a4 = k("a4"),
           !.coefa3 = k("coefa3"), !.coefa4 = k("coefa4"),
           !.logPFloor = k("logPFloor"), !.logQFloor = k("logQFloor"),
           !.logPnpInv = k("logPnpInv")]

setGeneratorConstantsMutEarly(b) ==
    LET b1    == setMinorityConstants(b)
        genId == getIdOfUsedGenerator(b1)
    IN  IF genId \in {"BERNOULLI_SUM", "WAITING"} THEN b1
        ELSE setRejectionConstants(b1)

\* BinomialRand::setGeneratorConstants
setGeneratorConstants(b) ==
    LET b1    == setMinorityConstants(b)
        genId == getIdOfUsedGenerator(b1)
    IN  IF genId = "BERNOULLI_SUM" THEN b1
        ELSE IF genId = "WAITING" THEN [b1 EXCEPT !.G = P(b1.minpq)]
        ELSE setRejectionConstants(b1)

\* line 84: n = std::max(number, 1)
clampNumberMutNone(number) == number

clampNumber(number) == Max(number, 1)

\* lines 85-86: p = std::min(probability, 1.0); p = std::max(p, 0.0)
clampProbability(probability) == Max(Min(probability, PONE), 0)

\* BinomialRand::setParameters
BinomSetParameters(b, number, probability) ==
    LET n == clampNumber(number)
        p == clampProbability(probability)
    IN  setGeneratorConstants([b EXCEPT !.n = n, !.p = p, !.q = PONE - p,
                                        !.np = n * p])

\* a BinomialRand object before its constructor has run
BinomRaw ==
    [n |-> 0, p |-> 0, q |-> 0, np |-> 0,
     minpq |-> 0, npFloor |-> 0, pFloor |-> <<0, 0>>, pRes |-> <<0, 0>>,
     G |-> <<0, 0>>, nqFloor |-> 0,
     delta1 |-> BUnset, delta2 |-> BUnset, sigma1 |-> BUnset, sigma2 |-> BUnset,
     c |-> BUnset, a1 |-> BUnset, a2 |-> BUnset, a3 |-> BUnset, a4 |-> BUnset,
     coefa3 |-> BUnset, coefa4 |-> BUnset,
     logPFloor |-> BUnset, logQFloor |-> BUnset, logPnpInv |-> BUnset]

\* BinomialRand::BinomialRand(number, probability)
BinomialRand(number, probability) == BinomSetParameters(BinomRaw, number, probability)

\* numbers handed to setParameters
NumberInputs == {0, 5, 40, 200, 1000}

\* probabilities handed to setParameters: out of range, tiny, minority and
\* majority, 0.5 and one grid step above it
ProbInputs ==
    {-(PONE \div 2), PONE \div 1000, 3 * (PONE \div 10), 44 * (PONE \div 100),
     38 * (PONE \div 100), 4 * (PONE \div 10),
     PONE \div 2, PONE \div 2 + 1, 56 * (PONE \div 100), 11 * (PONE \div 10)}

\* the probabilities an instance of the model stores
StoredProbs == {clampProbability(x) : x \in ProbInputs}

\* numbers handed to setParameters next to the estimators
FitNumberInputs == {-1, 0, 5}

\* probabilities handed to setParameters next to the estimators
FitProbInputs == {-(PONE \div 2), PONE \div 1000, PONE \div 2, 11 * (PONE \div 10)}

\* ------------------------------------------------------------------------
\* BinomialRand: estimators
\* ------------------------------------------------------------------------

\* a sample value (a double, counted in halves) converted to int
TruncToInt(v) == IF v >= 0 THEN v \div 2 ELSE -((-v) \div 2)

\* BinomialRand::checkValidity: "for (int var : sample)"
BinomCheckValidity(b, sample) ==
    \A i \in 1..Len(sample) :
        ~(TruncToInt(sample[i]) < 0 \/ TruncToInt(sample[i]) > b.n)

\* the sample values tried, relative to the number n of the instance:
\* -1 stands for -0.5, 0 for 0, 1 for n, 2 for n + 0.5 and 3 for n + 1
BinomSampleCodes == {-1, 0, 1, 2, 3}

\* the sample value (in halves) a code stands for
BinomSampleValue(n, code) ==
    IF code = -1 THEN -1 ELSE IF code = 0 THEN 0 ELSE 2 * n + (code - 1)

BinomSampleOf(n, codes) == [i \in 1..Len(codes) |-> BinomSampleValue(n, codes[i])]

BinomSamples == SeqsUpTo(BinomSampleCodes, MaxSample)

\* RandMath::sampleMean of a non-empty sample counted in halves
sampleMeanH(sample) == Frac(SumSeq(sample), 2 * Len(sample))

\* largest parameter of the prior the model follows
MaxPrior == 6

\* BetaRand::setParameters (parameters counted in halves)
BetaSetParameters(pr, shape1, shape2) ==
    [pr EXCEPT !.alpha = IF shape1 <= 0 THEN 2 ELSE shape1,
               !.beta  = IF shape2 <= 0 THEN 2 ELSE shape2]

\* BetaRand::Mean
BetaMean(pr) == Frac(pr.alpha, pr.alpha + pr.beta)

\* the fraction r clamped as setParameters clamps its probability
ClampR(r) == IF r[1] < 0 THEN <<0, 1>> ELSE IF r[1] > r[2] THEN <<1, 1>> ELSE r

\* the stored probabilities of the model that equal r after the clamp
StoredAs(r) == {x \in StoredProbs : P(x) = ClampR(r)}

\* a grid value on the same side of 0 and 1 as r, and equal to it in between
ProbArg(r) ==
    IF r[1] < 0 THEN -1
    ELSE IF r[1] > r[2] THEN PONE + 1
    ELSE IF StoredAs(r) = {} THEN 0 ELSE CHOOSE x \in StoredAs(r) : TRUE

\* an estimator call that hands the fraction r to setParameters(n, r);
\* dom: the probability it stores is a probability of the model
BFitSet(b, pr, r, fin) ==
    LET ok == fin /\ StoredAs(r) # {}
    IN  [ret |-> TRUE,
         b |-> IF ok THEN BinomSetParameters(b, b.n, ProbArg(r)) ELSE b,
         prior |-> pr, dom |-> ok]

\* BinomialRand::fitProbabilityMLE
fitProbabilityMLE(b, pr, sample) ==
    IF ~BinomCheckValidity(b, sample)
    THEN [ret |-> FALSE, b |-> b, prior |-> pr, dom |-> TRUE]
    ELSE LET fin == Len(sample) > 0
             r   == IF fin THEN RDiv(sampleMeanH(sample), <<b.n, 1>>) ELSE <<0, 1>>
         IN  BFitSet(b, pr, r, fin)

\* BinomialRand::fitProbabilityMM
fitProbabilityMM(b, pr, sample) == fitProbabilityMLE(b, pr, sample)

\* BinomialRand::fitProbabilityBayes
fitProbabilityBayes(b, pr, sample) ==
    LET N     == Len(sample)
        sumS  == SumSeq(sample)
        alpha == pr.alpha
        beta  == pr.beta
        pr1   == BetaSetParameters(pr, sumS + alpha, 2 * N * b.n - sumS + beta)
        fin   == pr1.alpha <= 2 * MaxPrior /\ pr1.beta <= 2 * MaxPrior
    IN  BFitSet(b, pr1, BetaMean(pr1), fin)

\* ------------------------------------------------------------------------
\* ContinuousDistribution
\* ------------------------------------------------------------------------

\* doubles of the ContinuousDistribution calls: a finite value in tenths, NaN,
\* the two infinities, or the value a numerical routine left behind
Fin(v) == [k |-> "fin", v |-> v]

NaN == [k |-> "nan", v |-> 0]

PosInf == [k |-> "inf", v |-> 0]

NegInf == [k |-> "ninf", v |-> 0]

NoValue == [k |-> "none", v |-> 0]

\* the value findRoot leaves in "root" when it reports success
FoundRoot == [k |-> "root", v |-> 0]

\* the value RandMath::integral returns
Integral == [k |-> "integral", v |-> 0]

TENTH == 10

\* p < 0 || p > 1: false for NaN
quantileOutOfRange(p) ==
    \/ p.k = "ninf"
    \/ p.k = "inf"
    \/ p.k = "fin" /\ (p.v < 0 \/ p.v > TENTH)

quantileSeedMutNanOnly(mean) ==
    IF mean.k = "nan" THEN Fin(0) ELSE mean

\* root = Mean(); if (isnan(root) || isinf(root)) root = 0.0
quantileSeed(mean) ==
    IF mean.k = "nan" \/ mean.k \in {"inf", "ninf"} THEN Fin(0) ELSE mean

\* Quantile(p) of a distribution whose Mean() is "mean", when the root finder,
\* if it is run, reports "found"
Quantile(p, mean, found) ==
    IF quantileOutOfRange(p)
    THEN [ret |-> NaN, called |-> FALSE, seed |-> NoValue]
    ELSE [ret |-> IF found THEN FoundRoot ELSE PosInf,
          called |-> TRUE, seed |-> quantileSeed(mean)]

Median(mean, found) == Quantile(Fin(TENTH \div 2), mean, found)

\* f(x), the density at x
fOf(x) == [k |-> "f", x |-> x]

\* an element of the output vector the caller put there
Old(j) == [k |-> "old", x |-> j]

ProbabilityDensityFunctionMutStrict(x, y) ==
    IF Len(x) >= Len(y)
    THEN y
    ELSE [j \in 1..Len(y) |-> IF j <= Len(x) THEN fOf(x[j]) ELSE y[j]]

\* the output vector y after ProbabilityDensityFunction(x, y)
ProbabilityDensityFunction(x, y) ==
    IF Len(x) > Len(y)
    THEN y
    ELSE [j \in 1..Len(y) |-> IF j <= Len(x) THEN fOf(x[j]) ELSE y[j]]

\* the cap on the outward steps of ExpectedValue in one direction (1000 in
\* the source)
maxIter == 3

resetIterMutKeep(iter) == iter

\* iter = 0 between the two boundary searches
resetIter(iter) == 0

PdfPoints == {1, 2}

MaxVec == 3

PdfInputs == SeqsUpTo(PdfPoints, MaxVec - 1)

PdfOutputs ==
    UNION {{[j \in 1..n |-> Old(j)]} : n \in 0..MaxVec}

QuantileInputs == {Fin(-1), Fin(0), Fin(TENTH \div 2), Fin(TENTH), Fin(TENTH + 1),
                   NaN, PosInf, NegInf}

MeanInputs == {Fin(0), Fin(3 * TENTH), NaN, PosInf, NegInf}

\* ------------------------------------------------------------------------
\* BinomialRand: the signs of the rejection constants
\* ------------------------------------------------------------------------

\* What is known of a double whose value is a logarithm, a root or an
\* exponential: "nan" (NaN or infinite), "neg" (< 0), "zero", "pos" (> 0),
\* "ge1" (>= 1), "real" (finite, sign unknown)
isPos(x) == x \in {"pos", "ge1"}

\* of the exact fraction r
clsOf(r) ==
    IF r[2] = 0 THEN "nan"
    ELSE IF r[1] < 0 THEN "neg"
    ELSE IF r[1] = 0 THEN "zero"
    ELSE IF r[1] >= r[2] THEN "ge1"
    ELSE "pos"

clsMul(x, y) ==
    IF x = "nan" \/ y = "nan" THEN "nan"
    ELSE IF x = "zero" \/ y = "zero" THEN "zero"
    ELSE IF x = "ge1" /\ y = "ge1" THEN "ge1"
    ELSE IF isPos(x) /\ isPos(y) THEN "pos"
    ELSE IF x = "neg" /\ y = "neg" THEN "pos"
    ELSE IF (x = "neg" /\ isPos(y)) \/ (isPos(x) /\ y = "neg") THEN "neg"
    ELSE "real"

clsDiv(x, y) ==
    IF x = "nan" \/ y \in {"nan", "zero", "real"} THEN "nan"
    ELSE IF x = "zero" THEN "zero"
    ELSE IF isPos(x) /\ isPos(y) THEN "pos"
    ELSE IF x = "neg" /\ y = "neg" THEN "pos"
    ELSE IF x = "real" THEN "real"
    ELSE "neg"

clsAdd(x, y) ==
    IF x = "nan" \/ y = "nan" THEN "nan"
    ELSE IF x = "zero" THEN y
    ELSE IF y = "zero" THEN x
    ELSE IF isPos(x) /\ isPos(y) THEN (IF "ge1" \in {x, y} THEN "ge1" ELSE "pos")
    ELSE IF x = "neg" /\ y = "neg" THEN "neg"
    ELSE "real"

clsNeg(x) ==
    IF isPos(x) THEN "neg" ELSE IF x = "neg" THEN "pos" ELSE x

clsLog(x) == IF isPos(x) THEN "real" ELSE "nan"

clsExp(x) == IF x = "nan" THEN "nan" ELSE "pos"

clsSqrt(x) == IF x \in {"zero", "pos", "ge1"} THEN x ELSE "nan"

\* if (delta > 1.0) delta = std::sqrt(delta); else delta = 1.0
\* (the test fails for NaN)
clsDelta(x) == "ge1"

\* lines 32-74 of setGeneratorConstants on the stored n, npFloor and pFloor:
\* what is known of every divisor and of every constant; inc2, inc3, inc4 are
\* the amounts added to a1, a2, a3 to obtain a2, a3, a4
rejectionClasses(b) ==
    LET npFloor == clsOf(<<b.npFloor, 1>>)
        nqFloor == clsOf(<<b.n - b.npFloor, 1>>)
        pFloor  == clsOf(b.pFloor)
        qFloor  == clsOf(RSub(<<1, 1>>, b.pFloor))
        npq     == clsMul(npFloor, qFloor)
        coef    == clsMul("ge1", clsOf(<<b.n, 1>>))
        l1      == clsDiv(clsMul(coef, pFloor), clsMul("ge1", qFloor))
        delta1  == clsDelta(clsMul(npq, clsLog(l1)))
        l2      == clsDiv(clsMul(coef, qFloor), pFloor)
        delta2  == clsDelta(clsMul(npq, clsLog(l2)))
        npqSqrt == clsSqrt(npq)
        sigma1  == clsMul(npqSqrt,
                          clsAdd("ge1", clsDiv(clsMul("pos", delta1), npFloor)))
        sigma2  == clsMul(npqSqrt,
                          clsAdd("ge1", clsDiv(clsMul("pos", delta2), nqFloor)))
        c       == clsDiv(clsMul("ge1", delta1), npFloor)
        a1      == clsMul(clsMul(clsMul("pos", clsExp(c)), sigma1), "ge1")
        inc2    == clsMul(clsMul("pos", sigma2), "ge1")
        sq1     == clsMul(sigma1, sigma1)
        sq2     == clsMul(sigma2, sigma2)
        coefa3  == clsDiv(clsMul("pos", delta1), sq1)
        e3      == clsMul(clsAdd(clsDiv("ge1", nqFloor), clsNeg(coefa3)), delta1)
        inc3    == clsDiv(clsExp(e3), coefa3)
        coefa4  == clsDiv(clsMul("pos", delta2), sq2)
        inc4    == clsDiv(clsExp(clsMul(clsNeg(delta2), coefa4)), coefa4)
    IN  [npFloor |-> npFloor, nqFloor |-> nqFloor, pFloor |-> pFloor,
         qFloor |-> qFloor, sq1 |-> sq1, sq2 |-> sq2,
         delta1 |-> delta1, delta2 |-> delta2,
         coefa3 |-> coefa3, coefa4 |-> coefa4,
         a1 |-> a1, inc2 |-> inc2, inc3 |-> inc3, inc4 |-> inc4]

\* ------------------------------------------------------------------------
\* ContinuousDistribution::Mode
\* ------------------------------------------------------------------------

\* Mode() evaluates the density only at mu + k * step for integers k: a
\* density is given by its values at -ModeWindow..ModeWindow steps from the
\* start and by its tails beyond, which vanish or keep rising
ModeWindow == 2

ModeValues == {0, 1, 2}

ModeTables == [(-ModeWindow)..ModeWindow -> ModeValues]

ModeTails == {"zero", "rising"}

\* passes of one localisation loop that are followed
ModeCap == ModeWindow + 2

\* mu = Mean(), Median() when that is NaN or infinite, 0.0 when that is too
modeStart(mean, median) ==
    IF mean.k = "fin" THEN mean.v
    ELSE IF median.k = "fin" THEN median.v
    ELSE 0

\* step = 10 * Variance(), 100 when that is NaN or infinite
modeStep(variance) ==
    IF variance.k = "fin" THEN 10 * variance.v ELSE 100

\* f(mu0 + k * step)
fAt(c, k) ==
    LET j == IF c.step = 0 THEN 0 ELSE k
    IN  IF j \in DOMAIN c.ft THEN c.ft[j]
        ELSE IF c.tail = "zero" THEN 0
        ELSE Abs(j) + ModeWindow

\* the point mu0 + k * step
pointAt(c, k) == c.mu0 + k * c.step

modeGoesOnMutWeak(fEnd, fmu) == fEnd >= fmu

\* the condition of both localisation loops: fa > fmu, fb > fmu
modeGoesOn(fEnd, fmu) == fEnd > fmu

\* the density does not increase away from a peak
Unimodal(c) ==
    /\ c.tail = "zero"
    /\ \E pk \in DOMAIN c.ft :
          /\ \A x, y \in DOMAIN c.ft : (x < y /\ y <= pk) => c.ft[x] <= c.ft[y]
          /\ \A x, y \in DOMAIN c.ft : (pk <= x /\ x < y) => c.ft[x] >= c.ft[y]

ModeMeanInputs == {Fin(0), NaN, PosInf}

ModeMedianInputs == {Fin(5), PosInf}

VarianceInputs == {Fin(0), Fin(1), NaN}

\* ------------------------------------------------------------------------
\* ChiSquaredRand and ErlangRand
\* ------------------------------------------------------------------------

\* Shapes of the derived classes are multiples of 1/2 and are kept as a count
\* of halves; scales and rates are exact fractions, <<1, 0>> being +infinity.
TWO == 2

\* 1.0 / r; 1.0 / 0 is +infinity
QInv(r) == IF r[1] < 0 THEN Frac(-r[2], -r[1]) ELSE Frac(r[2], r[1])

\* std::round of a count of halves
roundHalves(h) ==
    IF h >= 0 THEN ((h + 1) \div TWO) * TWO
              ELSE -(((-h + 1) \div TWO) * TWO)

\* alpha and theta as GammaRand::setParameters stores them, the shape in
\* halves and the scale a fraction
setParametersHalves(shape, scale) ==
    LET a0     == IF shape <= 0 THEN TWO ELSE shape
        th     == IF scale[1] <= 0 THEN <<1, 1>> ELSE scale
        aRound == roundHalves(a0)
    IN  [alpha |-> IF areClose(a0, aRound) THEN aRound ELSE a0,
         theta |-> th]

\* ChiSquaredRand::setDegree: 0.5 * degree is degree halves
setDegree(degree) ==
    setParametersHalves(IF degree < 1 THEN 1 ELSE degree, <<2, 1>>)

\* ChiSquaredRand::getDegree
getDegree(g) == g.alpha

\* ErlangRand::setParameters
ErlangSetParameters(shape, rate) ==
    setParametersHalves(TWO * Max(shape, 1), QInv(rate))

\* ErlangRand::getShape
getShape(g) == g.alpha \div TWO

\* ErlangRand::getRate
getRate(g) == QInv(g.theta)

\* the instance together with the arguments of the last call
ChiSquaredRand(degree) == [g |-> setDegree(degree), degree |-> degree]

ErlangRand(shape, rate) ==
    [g |-> ErlangSetParameters(shape, rate), shape |-> shape, rate |-> rate]

DegreeInputs == {-1, 0, 1, 2, 3, 7, 8, 999999, 1000000, 1000001}

ErlangShapeInputs == {-1, 0, 1, 2, 5}

RateInputs == {<<-1, 1>>, <<0, 1>>, <<1, 2>>, <<1, 1>>, <<2, 1>>}

\* ------------------------------------------------------------------------
\* BinomialRand: variateWaiting and the static variate on the range of int
\* ------------------------------------------------------------------------

INT_MAX == 2147483647

INT_MIN == -INT_MAX - 1

\* passes of one loop that are followed
MaxPasses == 5

\* the values an int can take after the conversion of a double above INT_MAX,
\* which the language leaves undefined: the "indefinite" value or saturation
OverflowOutcomes == {INT_MIN, INT_MAX}

\* sum after "sum += G.variate() + 1.0" with G.variate() = g >= 0
waitingSum(sm, g, outcome) ==
    IF sm >= 0 /\ g >= INT_MAX - sm THEN outcome ELSE (sm + 1) + g

\* the number of leading draws g with (g1 + 1) + ... + (gk + 1) <= budget
RECURSIVE Fits(_, _)
Fits(gs, budget) ==
    IF gs = <<>> \/ Head(gs) >= budget THEN 0
    ELSE 1 + Fits(Tail(gs), budget - Head(gs) - 1)

\* the frame of variateWaiting(number) at its entry; gs: the draws so far
WCall(number) ==
    [pc |-> "idle", number |-> number, X |-> -1, sum |-> 0, gs |-> <<>>,
     ret |-> 0]

\* the frame of variate(number, probability) at its entry; draws: the
\* Bernoulli variates drawn so far
SCall(number, probability) ==
    [pc |-> "idle", number |-> number, probability |-> probability,
     standard |-> areClose(probability, PONE \div 2),
     i |-> 0, var |-> 0, draws |-> 0, ret |-> 0]

WaitNumbers == {0, 1, 2, 3, INT_MAX}

WaitDraws == {0, 1, 2, INT_MAX - 1, INT_MAX}

StaticNumbers == {-2, -1, 0, 1, 2, 3, 4}

StaticProbs == {-(PONE \div 2), 3 * (PONE \div 10), PONE \div 2}

\* ------------------------------------------------------------------------
\* State
\* ------------------------------------------------------------------------

VARIABLES
    gamma,    \* the GammaRand instance: parameters and cached constants
    gprior,   \* the GammaRand instance handed to fitRateBayes
    gcall,    \* the GammaRand call in progress, or the last one finished
    binom,    \* the BinomialRand instance: parameters and cached constants
    bprior,   \* the BetaRand instance handed to fitProbabilityBayes
    bcall,    \* the BinomialRand call in progress, or the last one finished
    cdcall,   \* the ContinuousDistribution call in progress, or the last one
    chi,      \* the ChiSquaredRand instance and the last degree set
    erlang,   \* the ErlangRand instance and the last shape and rate set
    wcall,    \* the frame of a call of BinomialRand::variateWaiting(number)
    scall     \* the frame of a call of the static BinomialRand::variate

gvars == <<gamma, gprior, gcall>>

bvars == <<binom, bprior, bcall>>

ovars == <<cdcall, chi, erlang, wcall, scall>>

vars == <<gamma, gprior, gcall, binom, bprior, bcall, cdcall, chi, erlang,
          wcall, scall>>

\* a finished GammaRand call of operation op that drew nothing
GCall(op) ==
    [op |-> op, pc |-> "idle", alg |-> "none",
     iter |-> 0, steps |-> 0, inner |-> 0, nExp |-> 0, nNorm |-> 0,
     len |-> 0, out |-> <<>>,
     shape |-> 0, scale |-> 0, sample |-> <<>>, ret |-> TRUE,
     pre |-> [alpha |-> 0, theta |-> 0, palpha |-> 0, ptheta |-> 0]]

\* a finished BinomialRand call of operation op that drew nothing.
\* genId: the generator the call selected; iter: "iter" of variateRejection;
\* X, sum, wnumber: the locals and the argument of variateWaiting; Y: "Y" of
\* variate(); len, i, out: the output buffer and the slot being filled;
\* cnt: per slot, the count generated before any reflection;
\* exhausted: variateRejection gave up in this call; mode: the value Mode()
\* returned
BCall(op) ==
    [op |-> op, pc |-> "idle",
     number |-> 0, probability |-> 0,
     ret |-> TRUE, inSupport |-> TRUE, changed |-> FALSE,
     genId |-> "none", iter |-> 0, X |-> 0, sum |-> 0, wnumber |-> 0, Y |-> 0,
     len |-> 0, i |-> 0, out |-> <<>>, cnt |-> <<>>, exhausted |-> FALSE,
     mode |-> 0]

\* The ContinuousDistribution call. p, mean, found: the argument of Quantile,
\* the value of Mean() and the verdict of the root finder; seed, called: the
\* starting point handed to the finder and whether it was run; x0, y0, x, y:
\* the vectors of ProbabilityDensityFunction before and after the call;
\* iter: the step counter of ExpectedValue; lsteps, usteps: the outward steps
\* taken below and above the start point; lbig, ubig: the integrand magnitude
\* exceeded epsilon at every step so far in that direction; ret: the result;
\* mu0, step, ft, tail: the start, the step and the density of Mode(); ka, kmu,
\* kb: a, mu and b of Mode() in steps from the start; fa, fmu, fb: its cached
\* density values; handed: findMin was called
CDCall(op) ==
    [op |-> op, pc |-> "idle",
     p |-> NoValue, mean |-> NoValue, found |-> FALSE,
     seed |-> NoValue, called |-> FALSE,
     x0 |-> <<>>, y0 |-> <<>>, x |-> <<>>, y |-> <<>>,
     iter |-> 0, lsteps |-> 0, usteps |-> 0, lbig |-> TRUE, ubig |-> TRUE,
     mu0 |-> 0, step |-> 0, ft |-> <<>>, tail |-> "zero",
     ka |-> 0, kmu |-> 0, kb |-> 0, fa |-> 0, fmu |-> 0, fb |-> 0,
     handed |-> FALSE,
     ret |-> NoValue]

\* GammaRand(1, 1), GammaRand(1, 1) as the prior, BinomialRand(1, 0.5),
\* BetaRand(1, 1) as the prior, ChiSquaredRand(1), ErlangRand(1, 1)
InitRest ==
    /\ gamma = GammaRand(ONE, ONE)
    /\ gprior = GammaRand(ONE, ONE)
    /\ gcall = GCall("GammaRand")
    /\ binom = BinomialRand(1, PONE \div 2)
    /\ bprior = [alpha |-> 2, beta |-> 2]
    /\ bcall = BCall("BinomialRand")
    /\ chi = ChiSquaredRand(1)
    /\ erlang = ErlangRand(1, <<1, 1>>)
    /\ wcall = WCall(0)
    /\ scall = SCall(0, 0)

Init ==
    /\ InitRest
    /\ cdcall = CDCall("none")

\* ------------------------------------------------------------------------
\* GammaRand: operations
\* ------------------------------------------------------------------------

GSetParameters(shape, scale) ==
    /\ gcall.pc = "idle"
    /\ gamma' = GammaSetParameters(gamma, shape, scale)
    /\ gcall' = [GCall("setParameters") EXCEPT !.shape = shape, !.scale = scale]
    /\ UNCHANGED <<gprior, bvars, ovars>>

\* one call of an estimator whose outcome is r
GFit(op, sample, r) ==
    /\ gcall.pc = "idle"
    /\ r.dom
    /\ gamma' = r.g
    /\ gprior' = r.prior
    /\ gcall' = [GCall(op) EXCEPT
                    !.sample = sample, !.ret = r.ret,
                    !.pre = [alpha |-> gamma.alpha, theta |-> gamma.theta,
                             palpha |-> gprior.alpha, ptheta |-> gprior.theta]]
    /\ UNCHANGED <<bvars, ovars>>

GFitScaleMLE(sample) == GFit("fitScaleMLE", sample, fitScaleMLE(gamma, gprior, sample))

GFitScaleMM(sample) == GFit("fitScaleMM", sample, fitScaleMM(gamma, gprior, sample))

GFitShapeAndScaleMLE(sample, found, root) ==
    GFit("fitShapeAndScaleMLE", sample,
         fitShapeAndScaleMLE(gamma, gprior, sample, found, root))

GFitShapeMM(sample) == GFit("fitShapeMM", sample, fitShapeMM(gamma, gprior, sample))

GFitShapeAndScaleMM(sample) ==
    GFit("fitShapeAndScaleMM", sample, fitShapeAndScaleMM(gamma, gprior, sample))

GFitRateBayes(sample) ==
    GFit("fitRateBayes", sample, fitRateBayes(gamma, gprior, sample))

\* theta * rv as variate() and sample() deliver it
Deliver(rv) == IF rv = "nan" THEN "nan" ELSE "val"

\* the single-draw routine returns rv: store it, go on to the next slot
GReturn(cl, rv) ==
    LET o == Append(cl.out, Deliver(rv))
    IN  IF Len(o) < cl.len
        THEN [cl EXCEPT !.out = o, !.pc = cl.alg,
                        !.iter = 0, !.steps = 0, !.inner = 0]
        ELSE [cl EXCEPT !.out = o, !.pc = "idle"]

\* "while (++iter < 1e9); return NAN;" after a rejected proposal
GRejected(cl, loop) ==
    IF cl.iter + 1 < IterCap
    THEN [cl EXCEPT !.iter = cl.iter + 1, !.pc = loop]
    ELSE GReturn([cl EXCEPT !.iter = cl.iter + 1], "nan")

\* entry of variate() (len = 1) and of sample(outputData) (len = its size)
GBegin(op, alg, len) ==
    /\ gcall.pc = "idle"
    /\ gcall' =
         LET cl == [GCall(op) EXCEPT !.alg = alg, !.len = len]
         IN  IF alg = "integer"
             THEN [cl EXCEPT !.out = [i \in 1..len |-> "val"],
                             !.nExp = variateForIntegerShapeDraws(gamma).nExp,
                             !.nNorm = variateForIntegerShapeDraws(gamma).nNorm]
             ELSE IF alg = "halfinteger"
             THEN [cl EXCEPT !.out = [i \in 1..len |-> "val"],
                             !.nExp = variateForHalfIntegerShapeDraws(gamma).nExp,
                             !.nNorm = variateForHalfIntegerShapeDraws(gamma).nNorm]
             ELSE IF len = 0 THEN cl
             ELSE [cl EXCEPT !.pc = alg]
    /\ UNCHANGED <<gamma, gprior, bvars, ovars>>

GVariate == GBegin("variate", GammaVariateAlg(gamma), 1)

GSample(len) == GBegin("sample", GammaSampleAlg(gamma), len)

\* GammaRand::variateForSmallShape, one pass of its loop
GSmallShapeIter(accept) ==
    /\ gcall.pc = "small"
    /\ gcall' = LET cl == [gcall EXCEPT !.steps = gcall.steps + 1]
                IN  IF accept THEN GReturn(cl, "val") ELSE GRejected(cl, "small")
    /\ UNCHANGED <<gamma, gprior, bvars, ovars>>

\* GammaRand::variateForMediumShape, one pass of its loop
GMediumShapeIter(accept) ==
    /\ gcall.pc = "medium"
    /\ accept \/ gcall.steps < MaxSteps
    /\ gcall' = LET cl == [gcall EXCEPT !.steps = gcall.steps + 1]
                IN  IF accept THEN GReturn(cl, "val") ELSE cl
    /\ UNCHANGED <<gamma, gprior, bvars, ovars>>

\* GammaRand::variateForLargeShape, one pass of its outer loop up to the
\* inner loop (tail: U <= 0.0095722652)
GLargeShapeIter(tail, accept) ==
    /\ gcall.pc = "large"
    /\ gcall' = LET cl == [gcall EXCEPT !.steps = gcall.steps + 1, !.inner = 0]
                IN  IF ~tail THEN [cl EXCEPT !.pc = "largeInner"]
                    ELSE IF accept THEN GReturn(cl, "val")
                    ELSE GRejected(cl, "large")
    /\ UNCHANGED <<gamma, gprior, bvars, ovars>>

\* one pass of the inner loop "do ... while (rv < 0 || rv > b)" and, once it
\* is left, the acceptance tests of lines 141-152
GLargeShapeInner(inRange, accept) ==
    /\ gcall.pc = "largeInner"
    /\ inRange \/ gcall.inner < MaxSteps
    /\ gcall' = LET cl == [gcall EXCEPT !.inner = gcall.inner + 1]
                IN  IF ~inRange THEN cl
                    ELSE IF accept THEN GReturn(cl, "val")
                    ELSE GRejected(cl, "large")
    /\ UNCHANGED <<gamma, gprior, bvars, ovars>>

\* configuration and generation
GammaNext ==
    \/ \E shape \in ShapeInputs, scale \in ScaleInputs : GSetParameters(shape, scale)
    \/ GVariate
    \/ \E len \in 0..MaxBuf : GSample(len)
    \/ \E accept \in BOOLEAN : GSmallShapeIter(accept)
    \/ \E accept \in BOOLEAN : GMediumShapeIter(accept)
    \/ \E tail \in BOOLEAN, accept \in BOOLEAN : GLargeShapeIter(tail, accept)
    \/ \E inRange \in BOOLEAN, accept \in BOOLEAN : GLargeShapeInner(inRange, accept)

SpecGamma == Init /\ [][GammaNext]_vars

\* configuration and generation, a NaN shape included
GammaNaNNext ==
    \/ GammaNext
    \/ \E scale \in ScaleInputs : GSetParameters(NAN_D, scale)

SpecGammaNaN == Init /\ [][GammaNaNNext]_vars

\* the roots RandMath::findRoot may leave in shape
RootInputs == {ONE, 2 * ONE}

\* estimation
GammaFitNext ==
    \/ \E sample \in GammaSamples : GFitScaleMLE(sample)
    \/ \E sample \in GammaSamples : GFitScaleMM(sample)
    \/ \E sample \in GammaSamples, found \in BOOLEAN, root \in RootInputs :
            GFitShapeAndScaleMLE(sample, found, root)
    \/ \E sample \in GammaSamples : GFitShapeMM(sample)
    \/ \E sample \in GammaSamples : GFitShapeAndScaleMM(sample)
    \/ \E sample \in GammaSamples : GFitRateBayes(sample)

SpecGammaFit == Init /\ [][GammaFitNext]_vars

\* ------------------------------------------------------------------------
\* BinomialRand: operations
\* ------------------------------------------------------------------------

BSetParameters(number, probability) ==
    /\ bcall.pc = "idle"
    /\ binom' = BinomSetParameters(binom, number, probability)
    /\ bcall' = [BCall("setParameters") EXCEPT
                    !.number = number, !.probability = probability]
    /\ UNCHANGED <<bprior, gvars, ovars>>

\* every value of the sample is one of 0, 1, ..., n
BinomInSupport(b, sample) ==
    \A i \in 1..Len(sample) :
        sample[i] % 2 = 0 /\ 0 <= sample[i] /\ sample[i] <= 2 * b.n

\* one call of an estimator on sample whose outcome is r; the call record
\* notes what it returned, whether the sample lay in the support and whether
\* the instance or the prior changed
BFit(op, sample, r) ==
    /\ bcall.pc = "idle"
    /\ r.dom
    /\ binom' = r.b
    /\ bprior' = r.prior
    /\ bcall' = [BCall(op) EXCEPT
                    !.ret = r.ret,
                    !.inSupport = BinomInSupport(binom, sample),
                    !.changed = (r.b # binom \/ r.prior # bprior)]
    /\ UNCHANGED <<gvars, ovars>>

BFitProbabilityMLE(codes) ==
    LET sample == BinomSampleOf(binom.n, codes)
    IN  BFit("fitProbabilityMLE", sample, fitProbabilityMLE(binom, bprior, sample))

BFitProbabilityMM(codes) ==
    LET sample == BinomSampleOf(binom.n, codes)
    IN  BFit("fitProbabilityMM", sample, fitProbabilityMM(binom, bprior, sample))

BFitProbabilityBayes(codes) ==
    LET sample == BinomSampleOf(binom.n, codes)
    IN  BFit("fitProbabilityBayes", sample, fitProbabilityBayes(binom, bprior, sample))

\* configuration
BinomialNext ==
    \E number \in NumberInputs, probability \in ProbInputs :
        BSetParameters(number, probability)

SpecBinomial == Init /\ [][BinomialNext]_vars

\* configuration and estimation
BinomialFitNext ==
    \/ \E number \in FitNumberInputs, probability \in FitProbInputs :
          BSetParameters(number, probability)
    \/ \E codes \in BinomSamples : BFitProbabilityMLE(codes)
    \/ \E codes \in BinomSamples : BFitProbabilityMM(codes)
    \/ \E codes \in BinomSamples : BFitProbabilityBayes(codes)

SpecBinomialFit == Init /\ [][BinomialFitNext]_vars

\* ------------------------------------------------------------------------
\* BinomialRand: generation
\* ------------------------------------------------------------------------

\* at most this many remaining trials have every geometric draw tried
SmallWait == 4

\* the values of G.variate() tried while number trials remain
GDraws(number) ==
    IF number <= SmallWait THEN 0..Max(number, 0) ELSE {number \div 3, number}

\* the sums of number Bernoulli draws tried
BernoulliSums(number) == {0, number \div 2, number}

\* the candidates X + npFloor of one pass of variateRejection
RejectionCandidates(b) == {-1, b.npFloor, b.n, b.n + 1}

\* numbers and probabilities handed to setParameters next to the generators
GenNumberInputs == {4, 40}

GenProbInputs ==
    {-(PONE \div 2), PONE \div 1000, 44 * (PONE \div 100), 45 * (PONE \div 100),
     PONE \div 2, 56 * (PONE \div 100), 999 * (PONE \div 1000), PONE - 1,
     11 * (PONE \div 10)}

\* the largest of these numbers
GenMaxNumber == CHOOSE m \in GenNumberInputs : \A k \in GenNumberInputs : k <= m

\* entry of variateWaiting(number)
BWaitingStart(cl, number) ==
    [cl EXCEPT !.pc = "waiting", !.X = -1, !.sum = 0, !.wnumber = number]

\* line 214 and lines 266-273: the result of the waiting generator
reflectWaitingMutNever(b, var) == var

reflectWaiting(b, var) == IF b.p <= PONE \div 2 THEN var ELSE b.n - var

\* line 223 and lines 284-287: the result of the rejection generator
reflectRejection(b, Y) == IF b.p > PONE \div 2 THEN b.n - Y ELSE Y

\* lines 284-288: the last loop of sample() in the REJECTION case
BReflectAll(b, cl) ==
    [cl EXCEPT !.pc = "idle", !.cnt = cl.out,
               !.out = [k \in 1..Len(cl.out) |-> reflectRejection(b, cl.out[k])]]

\* variateWaiting returns w
BWaitingReturn(b, cl, w) ==
    IF cl.genId = "WAITING"
    THEN LET c1 == [cl EXCEPT !.out = Append(cl.out, reflectWaiting(b, w)),
                              !.cnt = Append(cl.cnt, w)]
         IN  IF Len(c1.out) < c1.len THEN BWaitingStart(c1, b.n)
             ELSE [c1 EXCEPT !.pc = "idle"]
    ELSE IF cl.op = "variate"
    THEN [cl EXCEPT !.pc = "idle", !.Y = cl.Y + w,
                    !.cnt = <<cl.Y + w>>,
                    !.out = <<reflectRejection(b, cl.Y + w)>>]
    ELSE LET c1 == [cl EXCEPT !.out[cl.i] = cl.out[cl.i] + w]
         IN  IF cl.i < cl.len
             THEN BWaitingStart([c1 EXCEPT !.i = cl.i + 1], b.n - c1.out[cl.i + 1])
             ELSE BReflectAll(b, c1)

\* variateRejection returns y
BRejectionReturn(b, cl, y) ==
    IF cl.op = "variate"
    THEN IF RPos(b.pRes)
         THEN BWaitingStart([cl EXCEPT !.Y = y], b.n - y)
         ELSE [cl EXCEPT !.pc = "idle", !.Y = y, !.cnt = <<y>>,
                         !.out = <<reflectRejection(b, y)>>]
    ELSE LET c1 == [cl EXCEPT !.out = Append(cl.out, y), !.iter = 0]
         IN  IF Len(c1.out) < c1.len THEN c1
             ELSE IF RPos(b.pRes)
             THEN BWaitingStart([c1 EXCEPT !.i = 1], b.n - c1.out[1])
             ELSE BReflectAll(b, c1)

\* the switch of variate() (len = 1) and of sample(outputData)
BDispatch(b, cl) ==
    LET genId == getIdOfUsedGenerator(b)
        c1    == [cl EXCEPT !.genId = genId]
    IN  IF cl.len = 0 THEN c1
        ELSE IF genId = "WAITING" THEN BWaitingStart(c1, b.n)
        ELSE IF genId = "REJECTION" THEN [c1 EXCEPT !.pc = "rejection"]
        ELSE [c1 EXCEPT !.pc = "bernoulli"]

\* BinomialRand::variate()
BVariate ==
    /\ bcall.pc = "idle"
    /\ bcall' = BDispatch(binom, [BCall("variate") EXCEPT !.len = 1])
    /\ UNCHANGED <<binom, bprior, gvars, ovars>>

\* BinomialRand::sample(outputData) on a buffer of len slots
BSample(len) ==
    /\ bcall.pc = "idle"
    /\ bcall' =
         LET cl == [BCall("sample") EXCEPT !.len = len]
         IN  IF binom.p = 0 THEN [cl EXCEPT !.out = [k \in 1..len |-> 0]]
             ELSE IF areClose(binom.p, PONE)
             THEN [cl EXCEPT !.out = [k \in 1..len |-> binom.n]]
             ELSE BDispatch(binom, cl)
    /\ UNCHANGED <<binom, bprior, gvars, ovars>>

\* BinomialRand::variateBernoulliSum(n, p): the sum k of its n draws
BBernoulliSum(k) ==
    /\ bcall.pc = "bernoulli"
    /\ k \in BernoulliSums(binom.n)
    /\ bcall' = LET c1 == [bcall EXCEPT !.out = Append(bcall.out, k)]
                IN  IF Len(c1.out) < c1.len THEN c1 ELSE [c1 EXCEPT !.pc = "idle"]
    /\ UNCHANGED <<binom, bprior, gvars, ovars>>

\* BinomialRand::variateWaiting, one pass of its loop with G.variate() = g
BWaitingIter(g) ==
    /\ bcall.pc = "waiting"
    /\ g \in GDraws(bcall.wnumber)
    /\ bcall' = LET c1 == [bcall EXCEPT !.sum = bcall.sum + g + 1,
                                        !.X = bcall.X + 1]
                IN  IF c1.sum <= c1.wnumber THEN c1
                    ELSE BWaitingReturn(binom, c1, c1.X)
    /\ UNCHANGED <<binom, bprior, gvars, ovars>>

\* BinomialRand::variateRejection, one pass of its loop: the branch taken
\* rejects or not, proposes X and passes the test on V or not
BRejectionIter(reject, X, ok) ==
    /\ bcall.pc = "rejection"
    /\ X \in RejectionCandidates(binom)
    /\ bcall' =
         IF ~reject /\ X >= 0 /\ X <= binom.n /\ ok
         THEN BRejectionReturn(binom, bcall, X)
         ELSE IF bcall.iter + 1 < IterCap
         THEN [bcall EXCEPT !.iter = bcall.iter + 1]
         ELSE BRejectionReturn(binom, [bcall EXCEPT !.iter = bcall.iter + 1,
                                                    !.exhausted = TRUE], -1)
    /\ UNCHANGED <<binom, bprior, gvars, ovars>>

\* configuration and generation
BinomialGenNext ==
    \/ \E number \in GenNumberInputs, probability \in GenProbInputs :
          BSetParameters(number, probability)
    \/ BVariate
    \/ \E len \in 0..MaxBuf : BSample(len)
    \/ \E k \in 0..GenMaxNumber : BBernoulliSum(k)
    \/ \E g \in 0..GenMaxNumber + 1 : BWaitingIter(g)
    \/ \E reject \in BOOLEAN, X \in -1..GenMaxNumber + 1, ok \in BOOLEAN :
          BRejectionIter(reject, X, ok)

SpecBinomialGen == Init /\ [][BinomialGenNext]_vars

\* ------------------------------------------------------------------------
\* Properties of GammaRand
\* ------------------------------------------------------------------------

InvGammaAt(a) == cdfCoefOf(a, a % ONE = 0)

\* C2: after setParameters every cached constant is the one computed from
\* the final stored alpha and theta: alphaInv = 1 / alpha, beta = 1 / theta,
\* cdfCoef = 1 / Gamma(alpha), pdfCoef = cdfCoef * beta^alpha, variateCoef =
\* alphaInv + 1 / e and, when alpha > 3, the constants of the large-shape
\* generator; also when the shape was snapped to an integer.
C2_ConstantsOfFinalAlpha ==
    /\ gamma.alphaInv = Frac(ONE, gamma.alpha)
    /\ gamma.beta = Frac(ONE, gamma.theta)
    /\ gamma.cdfCoef = InvGammaAt(gamma.alpha)
    /\ gamma.pdfCoef = [coef |-> InvGammaAt(gamma.alpha),
                        base |-> Frac(ONE, gamma.theta), exp |-> gamma.alpha]
    /\ gamma.variateCoef = [inv |-> Frac(ONE, gamma.alpha), plus |-> "1/e"]
    /\ gamma.alpha > 3 * ONE => gamma = setConstantsForGenerator(gamma)

\* the generator C6 names for the stored shape a
C6_Algorithm(a) ==
    IF a < 5 * ONE /\ areClose(a, round(a)) THEN "integer"
    ELSE IF a <= ONE THEN "small"
    ELSE IF a <= 3 * ONE THEN "medium"
    ELSE "large"

\* C6: variate() uses the integer-shape generator when alpha is an integer
\* below 5, and otherwise the small-shape generator when alpha <= 1, the
\* medium-shape generator when 1 < alpha <= 3 and the large-shape generator
\* when alpha > 3 (2 -> integer, 0.2 -> small, 50 -> large).
C6_VariateDispatch ==
    gcall.op = "variate" => gcall.alg = C6_Algorithm(gamma.alpha)

\* C7: for alpha in {0.5, 1.5, 2.5, 3.5, 4.5} variate() and sample() use the
\* half-integer generator, floor(alpha) exponentials plus half of one squared
\* normal; for alpha in {1, 2, 3, 4} they sum exactly alpha exponentials.
C7_HalfIntegerShapes ==
    gcall.op \in {"variate", "sample"} =>
        /\ gamma.alpha \in {HALF, 3 * HALF, 5 * HALF, 7 * HALF, 9 * HALF} =>
              /\ gcall.alg = "halfinteger"
              /\ gcall.nExp = gamma.alpha \div ONE
              /\ gcall.nNorm = 1
        /\ gamma.alpha \in {ONE, 2 * ONE, 3 * ONE, 4 * ONE} =>
              /\ gcall.alg = "integer"
              /\ gcall.nExp = gamma.alpha \div ONE
              /\ gcall.nNorm = 0

\* C10: every rejection loop of the generators (small, medium and large
\* shape, the inner redraw loop of the large-shape generator included) makes
\* at most the capped number of passes, and a loop that exhausts the cap
\* hands NaN to the caller of variate() or sample().
C10_LoopsCapped ==
    /\ gcall.steps <= IterCap
    /\ gcall.inner <= IterCap
    /\ (gcall.pc = "idle" /\ gcall.iter >= IterCap) =>
          gcall.out[Len(gcall.out)] = "nan"

\* ------------------------------------------------------------------------
\* Properties of BinomialRand
\* ------------------------------------------------------------------------

\* C3: after any sequence of setParameters calls, those of the estimators
\* included, n >= 1, 0 <= p <= 1, q = 1 - p and np = n * p.
C3_ParameterInvariants ==
    /\ binom.n >= 1
    /\ 0 <= binom.p
    /\ binom.p <= PONE
    /\ binom.q = PONE - binom.p
    /\ binom.np = binom.n * binom.p

\* setParameters(number <= 0, probability > 1) has just returned
C3_Witness ==
    /\ bcall.op = "setParameters"
    /\ bcall.number <= 0
    /\ bcall.probability > PONE
    /\ binom.n = 1
    /\ binom.p = PONE
    /\ binom.q = 0
    /\ binom.np = PONE

BinomEstimators == {"fitProbabilityMLE", "fitProbabilityMM", "fitProbabilityBayes"}

\* C4: an estimator handed a sample with a value outside the support returns
\* false and leaves the parameters and the prior as they were.
C4_EstimatorsFailClosed ==
    (bcall.op \in BinomEstimators /\ ~bcall.inSupport) =>
        (bcall.ret = FALSE /\ ~bcall.changed)

\* C5: fitProbabilityMLE returns true exactly when every sample value lies in
\* [0, n]; on a value above n or below 0 (n + 0.5 and -0.5 included) it
\* returns false and leaves the parameters unchanged.
C5_MLERejectsOutsideRange ==
    bcall.op = "fitProbabilityMLE" =>
        /\ bcall.ret = bcall.inSupport
        /\ ~bcall.inSupport => ~bcall.changed

\* the generator C8 names for the stored n and p
C8_Regime(n, p) ==
    LET minpq  == Min(p, PONE - p)
        x      == n * minpq
        npF    == x \div PONE
        resPos == x > npF * PONE /\ ~areClose(npF * PONE, x)
    IN  IF \/ n <= 3
           \/ (n <= 13 /\ 40 * minpq > (n + 6) * PONE)
           \/ (n <= 200 /\ areClose(p, PONE \div 2))
        THEN "BERNOULLI_SUM"
        ELSE IF npF <= 12 \/ (resPos /\ npF <= 16) THEN "WAITING"
        ELSE "REJECTION"

\* C8: getIdOfUsedGenerator is a function of the stored n and p:
\* BERNOULLI_SUM iff n <= 3, or n <= 13 and min(p, q) > 0.025 (n + 6), or
\* n <= 200 and p is close to 0.5; otherwise WAITING iff floor(n min(p, q))
\* <= 12, or pRes > 0 and that floor <= 16; otherwise REJECTION.  So
\* (5, 0.5) is BERNOULLI_SUM, (1000, 0.001) WAITING, (1000, 0.3) REJECTION.
C8_GeneratorSelection ==
    /\ getIdOfUsedGenerator(binom) = C8_Regime(binom.n, binom.p)
    /\ (binom.n = 5 /\ binom.p = PONE \div 2) =>
          getIdOfUsedGenerator(binom) = "BERNOULLI_SUM"
    /\ (binom.n = 1000 /\ binom.p = PONE \div 1000) =>
          getIdOfUsedGenerator(binom) = "WAITING"
    /\ (binom.n = 1000 /\ binom.p = 3 * (PONE \div 10)) =>
          getIdOfUsedGenerator(binom) = "REJECTION"

\* setParameters(1000, 0.3) has just returned after the instance was in
\* another regime, and selects REJECTION
C8_Witness ==
    /\ bcall.op = "setParameters"
    /\ binom.n = 1000
    /\ binom.p = 3 * (PONE \div 10)
    /\ getIdOfUsedGenerator(binom) = "REJECTION"
    /\ binom.G # <<0, 0>>

C11_SentinelDelivered ==
    (bcall.op \in {"variate", "sample"} /\ bcall.pc = "idle"
        /\ bcall.exhausted /\ bcall.len = 1) =>
        bcall.out = <<-1>>

\* ------------------------------------------------------------------------
\* ContinuousDistribution: operations
\* ------------------------------------------------------------------------

CQuantile(p, mean, found) ==
    /\ cdcall.pc = "idle"
    /\ LET r == Quantile(p, mean, found)
       IN  cdcall' = [CDCall("Quantile") EXCEPT !.p = p, !.mean = mean,
                          !.found = found, !.seed = r.seed,
                          !.called = r.called, !.ret = r.ret]
    /\ UNCHANGED <<gvars, bvars, chi, erlang, wcall, scall>>

CMedian(mean, found) ==
    /\ cdcall.pc = "idle"
    /\ LET r == Median(mean, found)
       IN  cdcall' = [CDCall("Median") EXCEPT !.mean = mean,
                          !.found = found, !.seed = r.seed,
                          !.called = r.called, !.ret = r.ret]
    /\ UNCHANGED <<gvars, bvars, chi, erlang, wcall, scall>>

CProbabilityDensityFunction(x, y) ==
    /\ cdcall.pc = "idle"
    /\ cdcall' = [CDCall("ProbabilityDensityFunction") EXCEPT
                      !.x0 = x, !.y0 = y, !.x = x,
                      !.y = ProbabilityDensityFunction(x, y)]
    /\ UNCHANGED <<gvars, bvars, chi, erlang, wcall, scall>>

\* ExpectedValue up to the first pass of the lower boundary search
CExpectedValue ==
    /\ cdcall.pc = "idle"
    /\ cdcall' = [CDCall("ExpectedValue") EXCEPT !.pc = "lower"]
    /\ UNCHANGED <<gvars, bvars, chi, erlang, wcall, scall>>

\* one pass of the lower do-while and, when it ends the loop, the test that
\* follows; big: fabs(integrand) > epsilon at the new boundary
CLowerStep(big) ==
    /\ cdcall.pc = "lower"
    /\ LET c == [cdcall EXCEPT !.lsteps = @ + 1, !.lbig = @ /\ big]
           again == big /\ cdcall.iter + 1 < maxIter
           iter1 == IF big THEN cdcall.iter + 1 ELSE cdcall.iter
       IN  cdcall' =
               IF again THEN [c EXCEPT !.iter = iter1]
               ELSE IF iter1 = maxIter
                    THEN [c EXCEPT !.iter = iter1, !.pc = "idle", !.ret = NaN]
                    ELSE [c EXCEPT !.iter = resetIter(iter1), !.pc = "upper"]
    /\ UNCHANGED <<gvars, bvars, chi, erlang, wcall, scall>>

\* one pass of the upper do-while and, when it ends the loop, the rest of
\* the function
CUpperStep(big) ==
    /\ cdcall.pc = "upper"
    /\ LET c == [cdcall EXCEPT !.usteps = @ + 1, !.ubig = @ /\ big]
           again == big /\ cdcall.iter + 1 < maxIter
           iter1 == IF big THEN cdcall.iter + 1 ELSE cdcall.iter
       IN  cdcall' =
               IF again THEN [c EXCEPT !.iter = iter1]
               ELSE [c EXCEPT !.iter = iter1, !.pc = "idle",
                         !.ret = IF iter1 = maxIter THEN NaN ELSE Integral]
    /\ UNCHANGED <<gvars, bvars, chi, erlang, wcall, scall>>

\* Mode() up to its first loop
CMode(mean, median, variance) ==
    /\ cdcall.pc = "idle"
    /\ LET c0 == [CDCall("Mode") EXCEPT !.mu0 = modeStart(mean, median),
                      !.step = modeStep(variance),
                      !.ft = cdcall.ft, !.tail = cdcall.tail,
                      !.ka = -1, !.kmu = 0, !.kb = 1]
       IN  cdcall' = [c0 EXCEPT !.pc = "first", !.fa = fAt(c0, -1),
                          !.fb = fAt(c0, 1), !.fmu = fAt(c0, 0)]
    /\ UNCHANGED <<gvars, bvars, chi, erlang, wcall, scall>>

\* the test of the first loop and one pass of it
CModeFirst ==
    /\ cdcall.pc = "first"
    /\ cdcall.lsteps < ModeCap
    /\ cdcall' =
         IF modeGoesOn(cdcall.fa, cdcall.fmu)
         THEN LET c1 == [cdcall EXCEPT !.kb = cdcall.kmu, !.fb = cdcall.fmu,
                             !.kmu = cdcall.ka, !.fmu = cdcall.fa,
                             !.ka = cdcall.ka - 1, !.lsteps = @ + 1]
              IN  [c1 EXCEPT !.fa = fAt(c1, c1.ka)]
         ELSE [cdcall EXCEPT !.pc = "second"]
    /\ UNCHANGED <<gvars, bvars, chi, erlang, wcall, scall>>

\* the test of the second loop and one pass of it, or the call of findMin
CModeSecond ==
    /\ cdcall.pc = "second"
    /\ cdcall.usteps < ModeCap
    /\ cdcall' =
         IF modeGoesOn(cdcall.fb, cdcall.fmu)
         THEN LET c1 == [cdcall EXCEPT !.ka = cdcall.kmu,
                             !.kmu = cdcall.kb, !.fmu = cdcall.fb,
                             !.kb = cdcall.kb + 1, !.usteps = @ + 1]
              IN  [c1 EXCEPT !.fb = fAt(c1, c1.kb)]
         ELSE [cdcall EXCEPT !.pc = "idle", !.handed = TRUE, !.ret = FoundRoot]
    /\ UNCHANGED <<gvars, bvars, chi, erlang, wcall, scall>>

\* Mode() of the distributions with every density of ModeTables and ModeTails
InitMode ==
    /\ InitRest
    /\ \E ft \in ModeTables, tail \in ModeTails :
          cdcall = [CDCall("none") EXCEPT !.ft = ft, !.tail = tail]

ModeNext ==
    \/ \E mean \in ModeMeanInputs, median \in ModeMedianInputs,
          variance \in VarianceInputs : CMode(mean, median, variance)
    \/ CModeFirst
    \/ CModeSecond

SpecMode == InitMode /\ [][ModeNext]_vars

ContinuousNext ==
    \/ \E p \in QuantileInputs, mean \in MeanInputs, found \in BOOLEAN :
           CQuantile(p, mean, found)
    \/ \E mean \in MeanInputs, found \in BOOLEAN : CMedian(mean, found)
    \/ \E x \in PdfInputs, y \in PdfOutputs : CProbabilityDensityFunction(x, y)
    \/ CExpectedValue
    \/ \E big \in BOOLEAN : CLowerStep(big)
    \/ \E big \in BOOLEAN : CUpperStep(big)

SpecContinuous == Init /\ [][ContinuousNext]_vars

\* C12: Quantile(p) returns NaN exactly when p < 0 or p > 1, and then the root
\* finder is not run; otherwise the finder is run from Mean(), or from 0 when
\* the mean is NaN or infinite, and the result is the found root on success
\* and +infinity on failure. Median() is Quantile(0.5).
C12_Quantile ==
    /\ cdcall.op = "Quantile" =>
        LET out == cdcall.p.k \in {"inf", "ninf"}
                   \/ (cdcall.p.k = "fin"
                       /\ (cdcall.p.v < 0 \/ cdcall.p.v > TENTH))
        IN  /\ (cdcall.ret = NaN) <=> out
            /\ out => ~cdcall.called
            /\ ~out =>
                /\ cdcall.called
                /\ cdcall.seed = (IF cdcall.mean.k = "fin" THEN cdcall.mean
                                  ELSE Fin(0))
                /\ cdcall.ret = (IF cdcall.found THEN FoundRoot ELSE PosInf)
    /\ cdcall.op = "Median" =>
        /\ cdcall.called
        /\ cdcall.seed = (IF cdcall.mean.k = "fin" THEN cdcall.mean ELSE Fin(0))
        /\ cdcall.ret = (IF cdcall.found THEN FoundRoot ELSE PosInf)

C12_Witness ==
    /\ cdcall.op = "Quantile"
    /\ cdcall.p = Fin(TENTH)
    /\ cdcall.mean = PosInf
    /\ cdcall.seed = Fin(0)
    /\ cdcall.ret = PosInf

\* C13: ProbabilityDensityFunction(x, y) leaves y untouched when y is shorter
\* than x; otherwise it sets y[i] = f(x[i]) for every index of x and leaves
\* the later elements of y alone; the length of y and x itself never change.
C13_PdfFrame ==
    cdcall.op = "ProbabilityDensityFunction" =>
        /\ Len(cdcall.y) = Len(cdcall.y0)
        /\ cdcall.x = cdcall.x0
        /\ Len(cdcall.y0) < Len(cdcall.x0) => cdcall.y = cdcall.y0
        /\ Len(cdcall.y0) >= Len(cdcall.x0) =>
            /\ \A i \in 1..Len(cdcall.x0) : cdcall.y[i] = fOf(cdcall.x0[i])
            /\ \A j \in (Len(cdcall.x0) + 1)..Len(cdcall.y0) :
                   cdcall.y[j] = cdcall.y0[j]

C13_Witness ==
    /\ cdcall.op = "ProbabilityDensityFunction"
    /\ Len(cdcall.x0) = 2
    /\ Len(cdcall.y0) = 3
    /\ cdcall.y = <<fOf(cdcall.x0[1]), fOf(cdcall.x0[2]), Old(3)>>

\* C14: each boundary search of ExpectedValue takes at most maxIter outward
\* steps, the counter restarting for the second direction; the call returns
\* NaN exactly when, in some direction, the integrand magnitude exceeded
\* epsilon at each of the first maxIter steps, and the integral over the two
\* boundaries otherwise.
C14_BoundarySearch ==
    cdcall.op = "ExpectedValue" =>
        /\ cdcall.lsteps <= maxIter
        /\ cdcall.usteps <= maxIter
        /\ cdcall.pc = "idle" =>
            LET lslow == cdcall.lsteps = maxIter /\ cdcall.lbig
                uslow == cdcall.usteps = maxIter /\ cdcall.ubig
            IN  /\ (cdcall.ret = NaN) <=> (lslow \/ uslow)
                /\ (cdcall.ret = Integral) <=> ~(lslow \/ uslow)
                /\ lslow => cdcall.usteps = 0

C14_Witness ==
    /\ cdcall.op = "ExpectedValue"
    /\ cdcall.pc = "idle"
    /\ cdcall.lsteps = maxIter
    /\ ~cdcall.lbig
    /\ cdcall.usteps = maxIter
    /\ cdcall.ubig
    /\ cdcall.ret = NaN

\* ------------------------------------------------------------------------
\* ChiSquaredRand and ErlangRand: operations
\* ------------------------------------------------------------------------

ChiSetDegree(degree) ==
    /\ chi' = ChiSquaredRand(degree)
    /\ UNCHANGED <<gvars, bvars, cdcall, erlang, wcall, scall>>

ErlSetParameters(shape, rate) ==
    /\ erlang' = ErlangRand(shape, rate)
    /\ UNCHANGED <<gvars, bvars, cdcall, chi, wcall, scall>>

DerivedNext ==
    \/ \E degree \in DegreeInputs : ChiSetDegree(degree)
    \/ \E shape \in ErlangShapeInputs, rate \in RateInputs :
           ErlSetParameters(shape, rate)

SpecDerived == Init /\ [][DerivedNext]_vars

\* C15: after every setDegree the ChiSquaredRand instance has scale 2 and
\* shape half the last-set degree (a degree below 1 counting as 1), and
\* getDegree() returns that degree.
C15_DegreePinned ==
    /\ chi.g.theta = <<2, 1>>
    /\ chi.g.alpha = Max(chi.degree, 1)
    /\ getDegree(chi.g) = Max(chi.degree, 1)

\* C16: ErlangRand::setParameters stores shape 1 for every shape below 1 and
\* scale 1, rate 1 for every rate <= 0; for a shape >= 1 and a rate > 0
\* getShape() and getRate() return the arguments.
C16_ErlangClamps ==
    /\ getShape(erlang.g) = Max(erlang.shape, 1)
    /\ erlang.rate[1] <= 0 =>
        /\ erlang.g.theta = <<1, 1>>
        /\ getRate(erlang.g) = <<1, 1>>
    /\ erlang.rate[1] > 0 => getRate(erlang.g) = erlang.rate

\* C17: sample() fills its slots with the routine variate() selects for the
\* stored shape: the two never disagree on the algorithm for the same
\* parameters.
C17_SampleAgreesWithVariate ==
    gcall.op = "sample" => gcall.alg = GammaVariateAlg(gamma)

\* C18: sample() keeps the length of its buffer and writes into every slot a
\* value made by the composition variate() uses for the regime of the stored
\* (n, p): a Bernoulli sum, a waiting count reflected when p > 0.5, or a
\* rejection count plus the residual waiting count, reflected when p > 0.5.
\* Only for p = 0 and p = 1 it writes 0, respectively n, without a draw.
C18_SampleComposition ==
    (bcall.op = "sample" /\ bcall.pc = "idle") =>
        /\ Len(bcall.out) = bcall.len
        /\ binom.p = 0 => \A k \in 1..bcall.len : bcall.out[k] = 0
        /\ binom.p = PONE => \A k \in 1..bcall.len : bcall.out[k] = binom.n
        /\ (binom.p \notin {0, PONE} /\ bcall.len > 0) =>
            /\ bcall.genId = getIdOfUsedGenerator(binom)
            /\ bcall.genId = "WAITING" =>
                   \A k \in 1..bcall.len :
                       bcall.out[k] = reflectWaiting(binom, bcall.cnt[k])
            /\ bcall.genId = "REJECTION" =>
                   \A k \in 1..bcall.len :
                       bcall.out[k] = reflectRejection(binom, bcall.cnt[k])

\* ------------------------------------------------------------------------
\* BinomialRand: variateWaiting and the static variate, operations
\* ------------------------------------------------------------------------

\* variateWaiting(number) up to its loop
WBegin(number) ==
    /\ wcall.pc # "loop"
    /\ wcall' = [WCall(number) EXCEPT !.pc = "loop"]
    /\ UNCHANGED <<gvars, bvars, cdcall, chi, erlang, scall>>

\* one pass of the do-while with G.variate() = g and, when it ends the loop,
\* the return
WPass(g, outcome) ==
    /\ wcall.pc = "loop"
    /\ Len(wcall.gs) < MaxPasses
    /\ LET sum1 == waitingSum(wcall.sum, g, outcome)
           c1   == [wcall EXCEPT !.sum = sum1, !.X = wcall.X + 1,
                                 !.gs = Append(wcall.gs, g)]
       IN  wcall' = IF sum1 <= wcall.number THEN c1
                    ELSE [c1 EXCEPT !.pc = "done", !.ret = c1.X]
    /\ UNCHANGED <<gvars, bvars, cdcall, chi, erlang, scall>>

WaitingNext ==
    \/ \E number \in WaitNumbers : WBegin(number)
    \/ \E g \in WaitDraws, outcome \in OverflowOutcomes : WPass(g, outcome)

SpecWaiting == Init /\ [][WaitingNext]_vars

\* variate(number, probability) and variateBernoulliSum up to the loop
SVariate(number, probability) ==
    /\ scall.pc # "loop"
    /\ scall' = [SCall(number, probability) EXCEPT !.pc = "loop"]
    /\ UNCHANGED <<gvars, bvars, cdcall, chi, erlang, wcall>>

\* one pass of "for (int i = 0; i != number; ++i)" with the Bernoulli variate
\* x; the first MaxPasses passes are followed
SPass(x) ==
    /\ scall.pc = "loop"
    /\ scall.i # scall.number
    /\ scall.draws < MaxPasses
    /\ scall' = [scall EXCEPT !.var = @ + x, !.i = @ + 1, !.draws = @ + 1]
    /\ UNCHANGED <<gvars, bvars, cdcall, chi, erlang, wcall>>

\* the loop condition fails: return var
SReturn ==
    /\ scall.pc = "loop"
    /\ scall.i = scall.number
    /\ scall' = [scall EXCEPT !.pc = "done", !.ret = scall.var]
    /\ UNCHANGED <<gvars, bvars, cdcall, chi, erlang, wcall>>

StaticNext ==
    \/ \E number \in StaticNumbers, probability \in StaticProbs :
           SVariate(number, probability)
    \/ \E x \in {0, 1} : SPass(x)
    \/ SReturn

SpecStatic == Init /\ [][StaticNext]_vars

\* C19: for number >= 0 and non-negative geometric draws, variateWaiting makes
\* at most number + 1 passes and returns the largest k with
\* (g1 + 1) + ... + (gk + 1) <= number, a value in [0, number].
C19_WaitingCount ==
    /\ Len(wcall.gs) >= 1 => Len(wcall.gs) - 1 <= wcall.number
    /\ wcall.pc = "done" =>
        /\ wcall.ret = Fits(wcall.gs, wcall.number)
        /\ wcall.ret >= 0
        /\ wcall.ret <= wcall.number

\* C20: the static variate(number, probability) draws exactly max(number, 0)
\* Bernoulli variates, for every number and probability, and returns their
\* sum, a value in [0, max(number, 0)].
C20_StaticVariate ==
    /\ scall.draws <= Max(scall.number, 0)
    /\ scall.pc = "done" =>
        /\ scall.draws = Max(scall.number, 0)
        /\ scall.ret = scall.var
        /\ scall.ret >= 0
        /\ scall.ret <= Max(scall.number, 0)

\* C21: with step > 0 the localisation loops of Mode() keep a < mu < b; when
\* both have ended, f(a) <= f(mu) and f(b) <= f(mu) for the a, mu, b handed to
\* findMin; and for a density that does not increase away from its peak each
\* loop ends within the passes it takes to leave the part where the density
\* is positive.
C21_ModeBracket ==
    cdcall.op = "Mode" =>
        /\ cdcall.step > 0 =>
            /\ pointAt(cdcall, cdcall.ka) < pointAt(cdcall, cdcall.kmu)
            /\ pointAt(cdcall, cdcall.kmu) < pointAt(cdcall, cdcall.kb)
        /\ cdcall.handed =>
            /\ fAt(cdcall, cdcall.ka) <= fAt(cdcall, cdcall.kmu)
            /\ fAt(cdcall, cdcall.kb) <= fAt(cdcall, cdcall.kmu)
        /\ (cdcall.step > 0 /\ Unimodal(cdcall)) =>
            /\ cdcall.lsteps <= ModeWindow
            /\ cdcall.usteps <= ModeWindow

C21_Witness ==
    /\ cdcall.op = "Mode"
    /\ cdcall.handed
    /\ cdcall.step > 0
    /\ Unimodal(cdcall)
    /\ cdcall.usteps = ModeWindow
    /\ fAt(cdcall, cdcall.ka) < fAt(cdcall, cdcall.kmu)

\* what variate() and sample() read of the instance b: the regime, n and p,
\* and the cached values of that regime's algorithm ("-" where it reads none)
C22_View(b) ==
    LET id   == getIdOfUsedGenerator(b)
        gen  == id # "BERNOULLI_SUM"
        rej  == id = "REJECTION"
        g(x) == IF gen THEN x ELSE "-"
        r(x) == IF rej THEN x ELSE "-"
    IN  [id |-> id, n |-> b.n, p |-> b.p,
         minpq |-> g(b.minpq), npFloor |-> g(b.npFloor),
         pFloor |-> g(b.pFloor), pRes |-> g(b.pRes),
         G |-> IF id = "WAITING" \/ (rej /\ RPos(b.pRes)) THEN b.G ELSE "-",
         nqFloor |-> r(b.nqFloor),
         delta1 |-> r(b.delta1), delta2 |-> r(b.delta2),
         sigma1 |-> r(b.sigma1), sigma2 |-> r(b.sigma2), c |-> r(b.c),
         a1 |-> r(b.a1), a2 |-> r(b.a2), a3 |-> r(b.a3), a4 |-> r(b.a4),
         coefa3 |-> r(b.coefa3), coefa4 |-> r(b.coefa4),
         logPFloor |-> r(b.logPFloor), logQFloor |-> r(b.logQFloor),
         logPnpInv |-> r(b.logPnpInv)]

\* C22: after any sequence of setParameters calls the regime and every cached
\* value the regime's algorithm reads are those of an instance that was only
\* ever given the last (number, probability): generation does not depend on
\* the earlier configurations.
C22_HistoryIndependent ==
    bcall.op = "setParameters" =>
        LET fresh == BinomialRand(bcall.number, bcall.probability)
        IN  /\ getIdOfUsedGenerator(binom) = getIdOfUsedGenerator(fresh)
            /\ C22_View(binom) = C22_View(fresh)

\* setParameters has selected WAITING on an instance that still carries the
\* rejection constants of an earlier configuration
C22_Witness ==
    /\ bcall.op = "setParameters"
    /\ getIdOfUsedGenerator(binom) = "WAITING"
    /\ binom.a1 # BUnset
    /\ binom # BinomialRand(bcall.number, bcall.probability)
    /\ binom.G = P(binom.minpq)

\* C23: whenever the instance is in the REJECTION regime its stored values
\* satisfy npFloor >= 13, 0 < pFloor <= 0.5, qFloor >= 0.5 and nqFloor =
\* n - npFloor >= 13; no divisor of setGeneratorConstants (pFloor, qFloor,
\* npFloor, nqFloor, sigma1^2, sigma2^2, coefa3, coefa4) is zero; delta1 >= 1,
\* delta2 >= 1 and 0 < a1 < a2 < a3 < a4.
C23_RejectionConstants ==
    getIdOfUsedGenerator(binom) = "REJECTION" =>
        LET k      == rejectionClasses(binom)
            qFloor == RSub(<<1, 1>>, binom.pFloor)
        IN  /\ binom.npFloor >= 13
            /\ binom.pFloor[1] > 0
            /\ 2 * binom.pFloor[1] <= binom.pFloor[2]
            /\ 2 * qFloor[1] >= qFloor[2]
            /\ binom.nqFloor = binom.n - binom.npFloor
            /\ binom.nqFloor >= 13
            /\ \A d \in {k.pFloor, k.qFloor, k.npFloor, k.nqFloor,
                         k.sq1, k.sq2, k.coefa3, k.coefa4} : isPos(d)
            /\ k.delta1 = "ge1"
            /\ k.delta2 = "ge1"
            /\ isPos(k.a1) /\ isPos(k.inc2) /\ isPos(k.inc3) /\ isPos(k.inc4)
            /\ binom.delta1 = BSym("delta1", binom.n, binom.npFloor)
            /\ binom.a4 = BSym("a4", binom.n, binom.npFloor)

\* setParameters(1000, 0.3) has computed the rejection constants
C23_Witness ==
    /\ bcall.op = "setParameters"
    /\ getIdOfUsedGenerator(binom) = "REJECTION"
    /\ binom.npFloor = 300
    /\ binom.nqFloor = 700
    /\ rejectionClasses(binom).inc4 = "pos"

\* C24: whenever variate() or sample() uses the large-shape algorithm the
\* stored alpha is > 3 and m, s_2, s, d, b, w, v, c are the values
\* setConstantsForGenerator computes from the stored alpha, with m - 1 > 0;
\* whenever the stored alpha is <= 3 the large-shape algorithm is not used.
C24_LargeShapeConstants ==
    (gcall.op \in {"variate", "sample"} /\ gcall.alg = "large") =>
        /\ gamma.alpha # NAN_D
        /\ gamma.alpha > 3 * ONE
        /\ gamma = setConstantsForGenerator(gamma)
        /\ gamma.m.def
        /\ gamma.m.val - ONE > 0

\* ------------------------------------------------------------------------
\* BinomialRand: mass function and mode
\* ------------------------------------------------------------------------

\* largest number handed to setParameters next to Mode()
MaxModeNumber == 5

\* numbers handed to setParameters next to Mode()
ModeNumberInputs == 0..MaxModeNumber

\* probabilities handed to setParameters next to Mode(): the multiples of
\* 1/8 from -1/8 to 9/8; on them n * p, np + p and the products of P(k) are
\* exact in double arithmetic
ModeProbInputs == {k * (PONE \div 8) : k \in (-1)..9}

\* std::pow(x, k) for an integer x and k >= 0
RECURSIVE pow(_, _)
pow(x, k) == IF k = 0 THEN 1 ELSE x * pow(x, k - 1)

\* RandMath::factorial for a small integer
RECURSIVE factorial(_)
factorial(k) == IF k <= 0 THEN 1 ELSE k * factorial(k - 1)

\* RandMath::binomialCoef: C(n, k) = n! / (k! * (n - k)!)
binomialCoef(nn, k) == factorial(nn) \div (factorial(k) * factorial(nn - k))

\* BinomialRand::P(k) times den^n, where p = num / den in lowest terms and
\* q = (den - num) / den
BinomP(b, k) ==
    LET pf == P(b.p)
        num == pf[1]
        den == pf[2]
    IN  IF k < 0 \/ k > b.n THEN 0
        ELSE IF k = b.n - k
             THEN binomialCoef(b.n, k) * pow(num * (den - num), k)
             ELSE binomialCoef(b.n, k) * pow(num, k) * pow(den - num, b.n - k)

\* BinomialRand::Mode: std::round(np + p), halves away from zero
BinomialMode(b) == (b.n * b.p + b.p + PONE \div 2) \div PONE

\* Mode() on the configured instance
BMode ==
    /\ bcall.pc = "idle"
    /\ bcall' = [BCall("Mode") EXCEPT !.mode = BinomialMode(binom)]
    /\ UNCHANGED <<binom, bprior, gvars, ovars>>

\* configuration with small numbers and dyadic probabilities, and Mode()
BinomialModeNext ==
    \/ \E number \in ModeNumberInputs, probability \in ModeProbInputs :
           BSetParameters(number, probability)
    \/ BMode

SpecBinomialMode == Init /\ [][BinomialModeNext]_vars

\* C25: for every stored (n, p) with n >= 1 and 0 <= p <= 1, Mode() returns
\* an integer k of 0..n with P(k) >= P(j) for every j of 0..n.
C25_ModeMaximisesMass ==
    bcall.op = "Mode" =>
        /\ bcall.mode \in 0..binom.n
        /\ \A j \in 0..binom.n : BinomP(binom, bcall.mode) >= BinomP(binom, j)

=============================================================================
